---- MODULE Spec2Model ----
(***************************************************************************)
(* Trade Bias Detector: the analyzeTrades engine of App.tsx (position      *)
(* replay per symbol, statistics, the five bias rules) and the file-select *)
(* handler that runs it.                                                   *)
(*                                                                         *)
(* JavaScript numbers are modelled as exact extended rationals <<n, d>>:   *)
(*   d > 0   the finite value n/d in lowest terms                          *)
(*   <<1,0>> +Infinity, <<-1,0>> -Infinity, <<0,0>> NaN                    *)
(* so that 0/0, x/0 and Infinity*0 behave as they do in the program.       *)
(* Rounding error of IEEE doubles and the sign of zero are not modelled.   *)
(***************************************************************************)
EXTENDS Integers, Sequences, FiniteSets, Bags, TLC

\* ---------------------------------------------------------------- bounds
MaxTrades == 3
MaxLong == 9
MaxPair == 4

\* ------------------------------------------------------ program constants
LossAversionFactorNum == 3
LossAversionFactorDen == 2
LossAversionScale == 50
OvertradingThreshold == 8
OvertradingScale == 10
RecencyDivisor == 3
RecencyThreshold == 40
ConfirmationThreshold == 25
WinRateThreshold == 40
MetricCap == 100
Percent == 100

\* ------------------------------------------------------------ JS numbers
NaN == <<0, 0>>
PosInf == <<1, 0>>
NegInf == <<0 - 1, 0>>

AbsInt(i) == IF i < 0 THEN 0 - i ELSE i
SignInt(i) == IF i < 0 THEN 0 - 1 ELSE IF i > 0 THEN 1 ELSE 0

RECURSIVE GCD(_, _)
GCD(a, b) == IF b = 0 THEN a ELSE GCD(b, a % b)

\* the finite value n/d (d # 0) in lowest terms with a positive denominator
Norm(n, d) ==
    LET s == IF d < 0 THEN 0 - 1 ELSE 1
        g == GCD(AbsInt(n), AbsInt(d))
    IN  <<(s * n) \div g, AbsInt(d) \div g>>

Num(i) == <<i, 1>>
IsNaN(x) == x[2] = 0 /\ x[1] = 0
IsInf(x) == x[2] = 0 /\ x[1] # 0
IsFinite(x) == x[2] > 0
Sign(x) == SignInt(x[1])

\* a + b
Add(a, b) ==
    IF IsNaN(a) \/ IsNaN(b) THEN NaN
    ELSE IF IsInf(a) /\ IsInf(b) THEN (IF a = b THEN a ELSE NaN)
    ELSE IF IsInf(a) THEN a
    ELSE IF IsInf(b) THEN b
    ELSE Norm(a[1] * b[2] + b[1] * a[2], a[2] * b[2])

Neg(a) == <<0 - a[1], a[2]>>

\* a - b
Sub(a, b) == Add(a, Neg(b))

\* a * b
Mul(a, b) ==
    IF IsNaN(a) \/ IsNaN(b) THEN NaN
    ELSE IF IsInf(a) \/ IsInf(b)
         THEN (IF Sign(a) * Sign(b) = 0 THEN NaN ELSE <<Sign(a) * Sign(b), 0>>)
    ELSE Norm(a[1] * b[1], a[2] * b[2])

\* a / b
Div(a, b) ==
    IF IsNaN(a) \/ IsNaN(b) THEN NaN
    ELSE IF IsInf(a) THEN (IF IsInf(b) THEN NaN
                           ELSE <<Sign(a) * (IF Sign(b) < 0 THEN 0 - 1 ELSE 1), 0>>)
    ELSE IF IsInf(b) THEN Num(0)
    ELSE IF b[1] = 0 THEN (IF a[1] = 0 THEN NaN ELSE <<Sign(a), 0>>)
    ELSE Norm(a[1] * b[2], a[2] * b[1])

\* a > b (false when either side is NaN)
Gt(a, b) ==
    IF IsNaN(a) \/ IsNaN(b) THEN FALSE
    ELSE IF IsInf(a) \/ IsInf(b)
         THEN (IF IsInf(a) /\ IsInf(b) THEN a[1] > b[1]
               ELSE IF IsInf(a) THEN a[1] > 0
               ELSE b[1] < 0)
    ELSE a[1] * b[2] > b[1] * a[2]

\* a < b
Lt(a, b) == Gt(b, a)

\* Math.min(a, b)
MathMin(a, b) ==
    IF IsNaN(a) \/ IsNaN(b) THEN NaN
    ELSE IF Lt(b, a) THEN b ELSE a

\* Math.max(a, b)
MathMax(a, b) ==
    IF IsNaN(a) \/ IsNaN(b) THEN NaN
    ELSE IF Gt(b, a) THEN b ELSE a

\* Math.abs(a)
MathAbs(a) == <<AbsInt(a[1]), a[2]>>

\* parseFloat(x.toFixed(1)): nearest multiple of 1/10, ties away from zero
ToFixed1(x) ==
    IF ~IsFinite(x) THEN x
    ELSE LET m == AbsInt(x[1])
             t == (20 * m + x[2]) \div (2 * x[2])
         IN  Norm(Sign(x) * t, 10)

\* ---------------------------------------------------------------- inputs
\* A Trade is [date, symbol, action, quantity, price]; quantity and price are
\* the already parsed numbers (non-negative integers here).
Symbols == {"AAPL", "MSFT"}
Quantities == {0, 1, 2}
Prices == {1, 2}

Row(sym, act, q, p) ==
    [date |-> 0, symbol |-> sym, action |-> act, quantity |-> q, price |-> p]

\* the rows a short file is made of: every buy and sell of AAPL, and one
\* row of each kind for MSFT
Rows ==
    {Row("AAPL", "buy", q, p) : q \in Quantities, p \in Prices}
    \cup {Row("AAPL", "sell", q, p) : q \in Quantities \ {0}, p \in Prices}
    \cup {Row("AAPL", "hold", 1, 1)}
    \cup {Row("MSFT", "BUY", 1, 2), Row("MSFT", "Sell", 1, 1),
          Row("MSFT", "Sell", 1, 2), Row("MSFT", "Dividend", 1, 1)}

\* the rows of a long file: a single symbol, bought high and sold low
LongRows == {Row("AAPL", "buy", 1, 2), Row("AAPL", "sell", 1, 1)}

\* the rows of the files that are compared with their interleavings
PairRows ==
    {Row("AAPL", "buy", 1, 2), Row("AAPL", "sell", 1, 3),
     Row("MSFT", "BUY", 1, 2), Row("MSFT", "Sell", 1, 1), Row("MSFT", "Sell", 1, 4)}

\* the date column of the i-th row: neither sorted nor free of ties
DateOf(i) == ((i * 2) % 3) + 1

Dated(rows) == [i \in 1..Len(rows) |-> [rows[i] EXCEPT !.date = DateOf(i)]]

SeqsUpTo(S, n) == UNION {[1..k -> S] : k \in 0..n}

ShortFiles == {Dated(r) : r \in SeqsUpTo(Rows, MaxTrades)}
LongFiles == {Dated(r) : r \in UNION {[1..k -> LongRows] : k \in (MaxTrades + 1)..MaxLong}}
PairFiles == {Dated(r) : r \in SeqsUpTo(PairRows, MaxPair)}

\* the trades of one symbol, in file order
OfSymbol(ts, sym) == SelectSeq(ts, LAMBDA t : t.symbol = sym)

\* the files that hold the rows of f in another order, each symbol's rows
\* keeping their relative order
Interleavings(f) ==
    {g \in {[i \in 1..Len(f) |-> f[pi[i]]] : pi \in Permutations(1..Len(f))} :
        /\ g # f
        /\ \A sym \in Symbols : OfSymbol(g, sym) = OfSymbol(f, sym)}

\* ------------------------------------------------------- analyzeTrades
\* String.prototype.toLowerCase on the spellings above
ToLowerCase(s) ==
    CASE s = "BUY" -> "buy"
      [] s = "Sell" -> "sell"
      [] s = "Dividend" -> "dividend"
      [] OTHER -> s

IsBuy(t) == ToLowerCase(t.action) = "buy"
IsSell(t) == ToLowerCase(t.action) = "sell"

\* variant: the sell branch also taken on a flat position (>= for >)
SellMatchesWhenFlat(t, pos) == IsSell(t) /\ (Gt(pos, Num(0)) \/ pos = Num(0))

\* the guard of the sell branch
SellMatches(t, pos) == IsSell(t) /\ Gt(pos, Num(0))

\* variant: only the buys and the sells are counted
TotalTradesBuysAndSells(ts) ==
    Len(SelectSeq(ts, IsBuy)) + Len(SelectSeq(ts, IsSell))

TotalTrades(ts) == Len(ts)

\* symbolTrades: one entry per symbol in first-seen order, each with the
\* symbol's trades in file order
RECURSIVE GroupFrom(_, _, _)
GroupFrom(ts, i, acc) ==
    IF i > Len(ts) THEN acc
    ELSE LET t == ts[i]
             hit == {k \in 1..Len(acc) : acc[k].symbol = t.symbol}
         IN  IF hit = {}
             THEN GroupFrom(ts, i + 1,
                            Append(acc, [symbol |-> t.symbol, list |-> <<t>>]))
             ELSE LET k == CHOOSE k \in hit : TRUE
                  IN  GroupFrom(ts, i + 1,
                                [acc EXCEPT ![k].list = Append(@, t)])

\* variant: all trades end up under one key, whatever their symbol
GroupUnderOneKey(ts) ==
    IF ts = <<>> THEN <<>> ELSE <<[symbol |-> ts[1].symbol, list |-> ts]>>

GroupBySymbol(ts) == GroupFrom(ts, 1, <<>>)

\* the denominator of the average-cost update of a buy
BuyDenominator(pos, t) == Add(pos, Num(t.quantity))

BuyAvgCost(cost, pos, t) ==
    Div(Add(Mul(cost, pos), Mul(Num(t.price), Num(t.quantity))),
        BuyDenominator(pos, t))

\* variant: a buy subtracts its quantity (-= for +=)
BuyPositionSubtracting(pos, t) == Sub(pos, Num(t.quantity))

BuyPosition(pos, t) == Add(pos, Num(t.quantity))

SellPnl(cost, pos, t) ==
    Mul(Sub(Num(t.price), cost), MathMin(Num(t.quantity), pos))

\* variant: a P&L of zero is a profit (>= for >)
IsProfitOrBreakEven(pnl) == Gt(pnl, Num(0)) \/ pnl = Num(0)

IsProfit(pnl) == Gt(pnl, Num(0))

SellPosition(pos, t) == Sub(pos, Num(t.quantity))

\* reduce((a, b) => a + b, 0)
RECURSIVE SumFrom(_, _)
SumFrom(s, i) == IF i > Len(s) THEN Num(0) ELSE Add(s[i], SumFrom(s, i + 1))

Sum(s) == SumFrom(s, 1)

\* variant: no guard against an empty profits list
WinRateUnguarded(ps, ls) ==
    Mul(Div(Num(Len(ps)), Num(Len(ps) + Len(ls))), Num(Percent))

WinRate(ps, ls) ==
    IF Len(ps) > 0
    THEN Mul(Div(Num(Len(ps)), Num(Len(ps) + Len(ls))), Num(Percent))
    ELSE Num(0)

AvgProfit(ps) == IF Len(ps) > 0 THEN Div(Sum(ps), Num(Len(ps))) ELSE Num(0)

AvgLoss(ls) == IF Len(ls) > 0 THEN Div(Sum(ls), Num(Len(ls))) ELSE Num(0)

ProfitFactor(ps, ls) ==
    IF Gt(AvgLoss(ls), Num(0))
    THEN Div(Mul(AvgProfit(ps), Num(Len(ps))), Mul(AvgLoss(ls), Num(Len(ls))))
    ELSE Num(0)

TradeStats(ts, ps, ls) ==
    [totalTrades |-> TotalTrades(ts),
     winRate |-> ToFixed1(WinRate(ps, ls)),
     avgProfit |-> AvgProfit(ps),
     avgLoss |-> AvgLoss(ls),
     profitFactor |-> ProfitFactor(ps, ls)]

\* variant: an insight is dropped once another rule has emitted
EmitUnlessAnyEmitted(biases, insight) ==
    IF biases = <<>> THEN <<insight>> ELSE biases

\* detectedBiases.push(insight)
Emit(biases, insight) == Append(biases, insight)

Insight(type, severity, metric) ==
    [type |-> type, severity |-> severity, metric |-> metric]

\* 1. Loss Aversion Bias
LossAversionFires(al, ap) ==
    Gt(al, Mul(ap, <<LossAversionFactorNum, LossAversionFactorDen>>))

\* variant: the metric is not capped
LossAversionMetricUncapped(al, ap) ==
    Mul(Div(al, ap), Num(LossAversionScale))

LossAversionMetric(al, ap) ==
    MathMin(Mul(Div(al, ap), Num(LossAversionScale)), Num(MetricCap))

\* 2. Overtrading Bias
TradesPerSymbol(ts, groups) == Div(Num(Len(ts)), Num(Len(groups)))

OvertradingFires(ts, groups) ==
    Gt(TradesPerSymbol(ts, groups), Num(OvertradingThreshold))

OvertradingMetric(ts, groups) ==
    MathMin(Mul(TradesPerSymbol(ts, groups), Num(OvertradingScale)), Num(MetricCap))

\* 3. Recency Bias
\* [...trades].sort(by date): stable insertion sort, ascending
RECURSIVE InsertByDate(_, _)
InsertByDate(sorted, t) ==
    IF sorted = <<>> THEN <<t>>
    ELSE IF sorted[Len(sorted)].date <= t.date THEN Append(sorted, t)
    ELSE Append(InsertByDate(SubSeq(sorted, 1, Len(sorted) - 1), t),
                sorted[Len(sorted)])

RECURSIVE SortFrom(_, _, _)
SortFrom(ts, i, acc) ==
    IF i > Len(ts) THEN acc ELSE SortFrom(ts, i + 1, InsertByDate(acc, ts[i]))

SortByDate(ts) == SortFrom(ts, 1, <<>>)

\* Array.prototype.slice(start): a negative start counts from the end, and
\* a start of (minus) zero is the beginning of the array
Slice(s, start) ==
    LET from == IF start < 0
                THEN (IF Len(s) + start < 0 THEN 0 ELSE Len(s) + start)
                ELSE (IF start > Len(s) THEN Len(s) ELSE start)
    IN  SubSeq(s, from + 1, Len(s))

\* Math.floor(trades.length / 3) is the integer quotient
RecentTrades(ts) == Slice(SortByDate(ts), 0 - (Len(ts) \div RecencyDivisor))

RecentConcentration(ts) ==
    Mul(Div(Num(Len(RecentTrades(ts))), Num(Len(ts))), Num(Percent))

RecencyFires(ts) == Gt(RecentConcentration(ts), Num(RecencyThreshold))

\* 4. Confirmation Bias
SymbolFrequency(ts, sym) == Len(OfSymbol(ts, sym))

\* Math.max(...values): -Infinity for no value at all
RECURSIVE MaxOver(_)
MaxOver(S) ==
    IF S = {} THEN NegInf
    ELSE LET v == CHOOSE v \in S : TRUE
         IN  MathMax(Num(v), MaxOver(S \ {v}))

MaxFreq(ts) ==
    MaxOver({SymbolFrequency(ts, ts[i].symbol) : i \in 1..Len(ts)})

Concentration(ts) == Mul(Div(MaxFreq(ts), Num(Len(ts))), Num(Percent))

ConfirmationFires(ts) == Gt(Concentration(ts), Num(ConfirmationThreshold))

\* 5. Win Rate Analysis
StrategyFires(wr) == Lt(wr, Num(WinRateThreshold))

StrategyMetric(wr) == Sub(Num(Percent), wr)

\* ------------------------------------------------------------------ state
VARIABLES
    queue,          \* the parsed files the user has yet to select
    isLoading,      \* React state
    insights,       \* React state: [null, value]
    stats,          \* React state: [null, value]
    pc,             \* where the handler / analyzeTrades stands
    trades,         \* the argument of analyzeTrades
    symbolTrades,   \* the trades grouped by symbol
    symIdx,         \* the symbol being replayed
    tIdx,           \* the trade of that symbol to process next (0: none yet)
    position,       \* the open quantity of the symbol being replayed
    avgCost,        \* its average cost
    profits,
    losses,
    winRate,        \* the unrounded win rate, as the last rule reads it
    tradeStats,
    detectedBiases,
    oversold,       \* history: a sell of this symbol exceeded its open quantity
    results         \* history: what each finished analysis was given and returned

vars == <<queue, isLoading, insights, stats, pc, trades, symbolTrades, symIdx,
          tIdx, position, avgCost, profits, losses, winRate, tradeStats,
          detectedBiases, oversold, results>>

locals == <<trades, symbolTrades, symIdx, tIdx, position, avgCost, profits,
            losses, winRate, tradeStats, detectedBiases, oversold>>

Null == [null |-> TRUE, value |-> <<>>]
Some(v) == [null |-> FALSE, value |-> v]

NoStats == TradeStats(<<>>, <<>>, <<>>)

InitRest ==
    /\ isLoading = FALSE
    /\ insights = Null
    /\ stats = Null
    /\ pc = "idle"
    /\ trades = <<>>
    /\ symbolTrades = <<>>
    /\ symIdx = 0
    /\ tIdx = 0
    /\ position = Num(0)
    /\ avgCost = Num(0)
    /\ profits = <<>>
    /\ losses = <<>>
    /\ winRate = Num(0)
    /\ tradeStats = NoStats
    /\ detectedBiases = <<>>
    /\ oversold = FALSE
    /\ results = <<>>

\* one file is selected: any short file, or a long file of few kinds of row
Init ==
    /\ queue \in {<<f>> : f \in ShortFiles \cup LongFiles}
    /\ InitRest

\* two files are selected one after the other, the second an interleaving
\* of the first
InitPair ==
    /\ queue \in UNION {{<<f, g>> : g \in Interleavings(f)} : f \in PairFiles}
    /\ InitRest

\* the inner forEach has run through the trades of the current symbol
SymbolDone ==
    IF symIdx = 0 THEN TRUE ELSE tIdx > Len(symbolTrades[symIdx].list)

\* the trade the replay is about to process
InReplay ==
    /\ pc = "replay"
    /\ symIdx \in 1..Len(symbolTrades)
    /\ ~SymbolDone

CurrentTrade == symbolTrades[symIdx].list[tIdx]

\* handleFileSelect up to the call of Papa.parse
HandleFileSelect ==
    /\ pc = "idle"
    /\ queue # <<>>
    /\ isLoading' = TRUE
    /\ insights' = Null
    /\ stats' = Null
    /\ pc' = "parsing"
    /\ UNCHANGED <<queue, locals, results>>

\* the error callback of Papa.parse
ParseError ==
    /\ pc = "parsing"
    /\ isLoading' = FALSE
    /\ queue' = Tail(queue)
    /\ pc' = "idle"
    /\ UNCHANGED <<insights, stats, locals, results>>

\* the complete callback enters analyzeTrades: the counts and the grouping
AnalyzeStart ==
    /\ pc = "parsing"
    /\ trades' = Head(queue)
    /\ queue' = Tail(queue)
    /\ profits' = <<>>
    /\ losses' = <<>>
    /\ symbolTrades' = GroupBySymbol(Head(queue))
    /\ symIdx' = 0
    /\ tIdx' = 0
    /\ position' = Num(0)
    /\ avgCost' = Num(0)
    /\ winRate' = Num(0)
    /\ tradeStats' = NoStats
    /\ detectedBiases' = <<>>
    /\ oversold' = FALSE
    /\ pc' = "replay"
    /\ UNCHANGED <<isLoading, insights, stats, results>>

\* the outer forEach moves to the next symbol with a fresh position
BeginSymbol ==
    /\ pc = "replay"
    /\ symIdx < Len(symbolTrades)
    /\ SymbolDone
    /\ symIdx' = symIdx + 1
    /\ tIdx' = 1
    /\ position' = Num(0)
    /\ avgCost' = Num(0)
    /\ oversold' = FALSE
    /\ UNCHANGED <<queue, isLoading, insights, stats, pc, trades, symbolTrades,
                   profits, losses, winRate, tradeStats, detectedBiases, results>>

ReplayBuy ==
    /\ InReplay
    /\ IsBuy(CurrentTrade)
    /\ avgCost' = BuyAvgCost(avgCost, position, CurrentTrade)
    /\ position' = BuyPosition(position, CurrentTrade)
    /\ tIdx' = tIdx + 1
    /\ UNCHANGED <<queue, isLoading, insights, stats, pc, trades, symbolTrades,
                   symIdx, profits, losses, winRate, tradeStats, detectedBiases,
                   oversold, results>>

ReplaySell ==
    /\ InReplay
    /\ ~IsBuy(CurrentTrade)
    /\ SellMatches(CurrentTrade, position)
    /\ LET pnl == SellPnl(avgCost, position, CurrentTrade)
       IN  IF IsProfit(pnl)
           THEN profits' = Append(profits, pnl) /\ losses' = losses
           ELSE losses' = Append(losses, MathAbs(pnl)) /\ profits' = profits
    /\ position' = SellPosition(position, CurrentTrade)
    /\ oversold' = (oversold \/ Gt(Num(CurrentTrade.quantity), position))
    /\ tIdx' = tIdx + 1
    /\ UNCHANGED <<queue, isLoading, insights, stats, pc, trades, symbolTrades,
                   symIdx, avgCost, winRate, tradeStats, detectedBiases, results>>

\* neither branch is taken
ReplayIgnored ==
    /\ InReplay
    /\ ~IsBuy(CurrentTrade)
    /\ ~SellMatches(CurrentTrade, position)
    /\ tIdx' = tIdx + 1
    /\ UNCHANGED <<queue, isLoading, insights, stats, pc, trades, symbolTrades,
                   symIdx, position, avgCost, profits, losses, winRate,
                   tradeStats, detectedBiases, oversold, results>>

ReplayDone ==
    /\ pc = "replay"
    /\ symIdx = Len(symbolTrades)
    /\ SymbolDone

ComputeStats ==
    /\ ReplayDone
    /\ winRate' = WinRate(profits, losses)
    /\ tradeStats' = TradeStats(trades, profits, losses)
    /\ detectedBiases' = <<>>
    /\ pc' = "lossAversion"
    /\ UNCHANGED <<queue, isLoading, insights, stats, trades, symbolTrades,
                   symIdx, tIdx, position, avgCost, profits, losses, oversold,
                   results>>

RuleFrame ==
    UNCHANGED <<queue, isLoading, insights, stats, trades, symbolTrades, symIdx,
                tIdx, position, avgCost, profits, losses, winRate, tradeStats,
                oversold, results>>

LossAversionRule ==
    /\ pc = "lossAversion"
    /\ detectedBiases' =
        IF LossAversionFires(tradeStats.avgLoss, tradeStats.avgProfit)
        THEN Emit(detectedBiases,
                    Insight("Loss Aversion Bias", "high",
                            LossAversionMetric(tradeStats.avgLoss, tradeStats.avgProfit)))
        ELSE detectedBiases
    /\ pc' = "overtrading"
    /\ RuleFrame

OvertradingRule ==
    /\ pc = "overtrading"
    /\ detectedBiases' =
        IF OvertradingFires(trades, symbolTrades)
        THEN Emit(detectedBiases,
                    Insight("Overtrading Bias", "medium",
                            OvertradingMetric(trades, symbolTrades)))
        ELSE detectedBiases
    /\ pc' = "recency"
    /\ RuleFrame

RecencyRule ==
    /\ pc = "recency"
    /\ detectedBiases' =
        IF RecencyFires(trades)
        THEN Emit(detectedBiases,
                    Insight("Recency Bias", "medium", RecentConcentration(trades)))
        ELSE detectedBiases
    /\ pc' = "confirmation"
    /\ RuleFrame

ConfirmationRule ==
    /\ pc = "confirmation"
    /\ detectedBiases' =
        IF ConfirmationFires(trades)
        THEN Emit(detectedBiases,
                    Insight("Confirmation Bias", "low", Concentration(trades)))
        ELSE detectedBiases
    /\ pc' = "strategy"
    /\ RuleFrame

StrategyRule ==
    /\ pc = "strategy"
    /\ detectedBiases' =
        IF StrategyFires(winRate)
        THEN Emit(detectedBiases,
                    Insight("Strategy Effectiveness", "high", StrategyMetric(winRate)))
        ELSE detectedBiases
    /\ pc' = "return"
    /\ RuleFrame

\* analyzeTrades returns; the callback stores the result and clears isLoading
AnalyzeReturn ==
    /\ pc = "return"
    /\ insights' = Some(detectedBiases)
    /\ stats' = Some(tradeStats)
    /\ isLoading' = FALSE
    /\ results' = Append(results,
                         [trades |-> trades, profits |-> profits, losses |-> losses,
                          stats |-> tradeStats, insights |-> detectedBiases])
    /\ pc' = "idle"
    /\ UNCHANGED <<queue, locals>>

Next ==
    \/ HandleFileSelect
    \/ ParseError
    \/ AnalyzeStart
    \/ BeginSymbol
    \/ ReplayBuy
    \/ ReplaySell
    \/ ReplayIgnored
    \/ ComputeStats
    \/ LossAversionRule
    \/ OvertradingRule
    \/ RecencyRule
    \/ ConfirmationRule
    \/ StrategyRule
    \/ AnalyzeReturn

Spec == Init /\ [][Next]_vars

SpecPair == InitPair /\ [][Next]_vars

\* ----------------------------------------------------------- properties
Zero == Num(0)
Hundred == Num(Percent)

\* a >= b, false when either side is NaN
Ge(a, b) == Gt(a, b) \/ (~IsNaN(a) /\ a = b)

Finished == {results[i] : i \in 1..Len(results)}

Elems(s) == {s[i] : i \in 1..Len(s)}

Events == Len(profits) + Len(losses)

Types(r) == [i \in 1..Len(r.insights) |-> r.insights[i].type]

HasInsight(r, type) == \E i \in 1..Len(r.insights) : r.insights[i].type = type

\* C1: for every input with non-negative finite quantities and prices the
\* returned statistics satisfy 0 <= winRate <= 100, avgProfit >= 0 and
\* avgLoss >= 0 (so none of them is NaN or infinite).
C1_StatsInRange ==
    \A r \in Finished :
        /\ Ge(r.stats.winRate, Zero) /\ Ge(Hundred, r.stats.winRate)
        /\ Ge(r.stats.avgProfit, Zero) /\ IsFinite(r.stats.avgProfit)
        /\ Ge(r.stats.avgLoss, Zero) /\ IsFinite(r.stats.avgLoss)

\* C2 as stated: at every buy the denominator openQuantity + q is zero only
\* when openQuantity and q are both zero.
C2_ZeroDenominatorOnlyWhenBothZero ==
    (InReplay /\ IsBuy(CurrentTrade)
        /\ BuyDenominator(position, CurrentTrade) = Zero)
    => (position = Zero /\ CurrentTrade.quantity = 0)

\* C2 as amended: at every buy the denominator openQuantity + q is zero only
\* when both are zero, or when openQuantity is negative because an earlier
\* sell of the symbol exceeded its open quantity; while no sell has done so,
\* no buy of a strictly positive quantity has a zero denominator.
C2_ZeroDenominatorUnlessOversold ==
    (InReplay /\ IsBuy(CurrentTrade)
        /\ BuyDenominator(position, CurrentTrade) = Zero)
    => \/ (position = Zero /\ CurrentTrade.quantity = 0)
       \/ (oversold /\ Lt(position, Zero) /\ CurrentTrade.quantity > 0)

\* a zero-quantity buy on a position that a buy and a sell have brought back
\* to flat
C2_Witness ==
    /\ InReplay /\ IsBuy(CurrentTrade)
    /\ BuyDenominator(position, CurrentTrade) = Zero
    /\ ~oversold
    /\ tIdx > 2
    /\ Events > 0

\* the percentage the Recency rule is specified to compare with 40
SpecRecencyPct(n) == Mul(Div(Num(n \div 3), Num(n)), Hundred)

\* C3: the Recency Bias insight is emitted iff
\* (floor(totalTrades/3) / totalTrades) * 100 > 40, and its metric is that
\* percentage.
C3_RecencyIff ==
    \A r \in Finished :
        LET pct == SpecRecencyPct(Len(r.trades))
        IN  /\ HasInsight(r, "Recency Bias") <=> Gt(pct, Num(40))
            /\ \A i \in 1..Len(r.insights) :
                   r.insights[i].type = "Recency Bias" => r.insights[i].metric = pct

\* C4: totalTrades of the returned statistics is the length of the input,
\* unrecognized actions and ignored sells included.
C4_TotalTradesIsLength ==
    /\ \A r \in Finished : r.stats.totalTrades = Len(r.trades)
    /\ (~stats.null) => stats.value.totalTrades = Len(trades)

\* a finished file of an unrecognized action and a sell, none of them matched
C4_Witness ==
    \E r \in Finished :
        /\ Len(r.trades) = MaxTrades
        /\ \E i \in 1..Len(r.trades) : ~IsBuy(r.trades[i]) /\ ~IsSell(r.trades[i])
        /\ \E i \in 1..Len(r.trades) : IsSell(r.trades[i])
        /\ r.profits = <<>> /\ r.losses = <<>>

\* C5: a replayed trade appends one profit or loss iff it is a sell met with
\* openQuantity > 0; a sell met with openQuantity <= 0 changes neither the
\* lists nor openQuantity nor averageCost; a file without a sell yields no
\* event and no file yields more events than it has sells.
C5_EventIffMatchedSell ==
    [][ /\ InReplay =>
            LET t == CurrentTrade
                matched == IsSell(t) /\ Gt(position, Zero)
            IN  /\ Len(profits') + Len(losses') = Events + (IF matched THEN 1 ELSE 0)
                /\ (IsSell(t) /\ ~matched) =>
                       UNCHANGED <<profits, losses, position, avgCost>>
                /\ IsBuy(t) => UNCHANGED <<profits, losses>>
        /\ \A r \in Finished :
               Len(r.profits) + Len(r.losses)
                   <= Cardinality({i \in 1..Len(r.trades) : IsSell(r.trades[i])})
      ]_vars

\* a sell has just been ignored: nothing is realized and the position is
\* not open
C5_Witness ==
    /\ pc = "replay"
    /\ symIdx >= 1
    /\ tIdx >= 3
    /\ IsSell(symbolTrades[symIdx].list[tIdx - 1])
    /\ IsBuy(symbolTrades[symIdx].list[tIdx - 2])
    /\ Events = 0
    /\ position = Zero

\* C6: a sell of q at p met with openQuantity > 0 realizes exactly
\* (p - averageCost) * min(q, openQuantity): appended to profits when > 0,
\* otherwise its absolute value is appended to losses (so a sell at the
\* average cost adds 0 to losses and counts against winRate); openQuantity
\* then drops by the full q, unclamped.
C6_SellRealizesPnl ==
    [][ /\ (InReplay /\ IsSell(CurrentTrade) /\ Gt(position, Zero)) =>
            LET t == CurrentTrade
                m == IF Gt(position, Num(t.quantity)) THEN Num(t.quantity) ELSE position
                amount == Mul(Add(Num(t.price), Neg(avgCost)), m)
            IN  /\ Gt(amount, Zero) =>
                       profits' = Append(profits, amount) /\ losses' = losses
                /\ ~Gt(amount, Zero) =>
                       losses' = Append(losses, MathAbs(amount)) /\ profits' = profits
                /\ position' = Add(position, Num(0 - t.quantity))
                /\ avgCost' = avgCost
        /\ \A r \in Finished :
               Len(r.profits) + Len(r.losses) > 0 =>
                   r.stats.winRate =
                       ToFixed1(Norm(Percent * Len(r.profits),
                                     Len(r.profits) + Len(r.losses)))
      ]_vars

\* a sell at exactly the average cost for more than the open quantity: a
\* loss of 0 and a negative openQuantity
C6_Witness ==
    /\ pc = "replay"
    /\ Zero \in Elems(losses)
    /\ profits = <<>>
    /\ Lt(position, Zero)

RuleOrder ==
    <<"Loss Aversion Bias", "Overtrading Bias", "Recency Bias",
      "Confirmation Bias", "Strategy Effectiveness">>

\* the trigger of each rule, read off a finished analysis
Triggered(r, type) ==
    CASE type = "Loss Aversion Bias" ->
             LossAversionFires(r.stats.avgLoss, r.stats.avgProfit)
      [] type = "Overtrading Bias" ->
             OvertradingFires(r.trades, GroupBySymbol(r.trades))
      [] type = "Recency Bias" -> RecencyFires(r.trades)
      [] type = "Confirmation Bias" -> ConfirmationFires(r.trades)
      [] type = "Strategy Effectiveness" ->
             StrategyFires(WinRate(r.profits, r.losses))

\* C7: the returned insights are the rules whose own trigger holds, each
\* once, in the fixed rule order.
C7_InsightsInRuleOrder ==
    \A r \in Finished :
        Types(r) = SelectSeq(RuleOrder, LAMBDA type : Triggered(r, type))

\* four rules fire on the same file
C7_Witness ==
    \E r \in Finished : Len(r.insights) = 4 /\ HasInsight(r, "Recency Bias")

\* C8: the empty trade list yields all-zero statistics and the single
\* insight Strategy Effectiveness with metric 100.
C8_EmptyInput ==
    \A r \in Finished :
        r.trades = <<>> =>
            /\ r.stats = [totalTrades |-> 0, winRate |-> Zero, avgProfit |-> Zero,
                          avgLoss |-> Zero, profitFactor |-> Zero]
            /\ r.insights = <<Insight("Strategy Effectiveness", "high", Hundred)>>

C8_Witness ==
    /\ \E r \in Finished : r.trades = <<>>
    /\ ~insights.null
    /\ Len(insights.value) = 1

\* g holds the trades of f, each symbol's trades in the same relative order
SameUpToInterleaving(f, g) ==
    /\ Len(f) = Len(g)
    /\ \A sym \in Symbols : OfSymbol(f, sym) = OfSymbol(g, sym)

RECURSIVE BagOf(_)
BagOf(s) == IF s = <<>> THEN EmptyBag ELSE BagOf(Tail(s)) (+) SetToBag({Head(s)})

\* C9: two inputs that differ only in how the trades of different symbols
\* are interleaved yield the same multisets of profits and of losses and the
\* same winRate, avgProfit, avgLoss and profitFactor.
C9_InterleavingInvariant ==
    \A i, j \in 1..Len(results) :
        SameUpToInterleaving(results[i].trades, results[j].trades) =>
            /\ BagOf(results[i].profits) = BagOf(results[j].profits)
            /\ BagOf(results[i].losses) = BagOf(results[j].losses)
            /\ results[i].stats = results[j].stats

\* both symbols realize an event and the two files pool them in a
\* different order
C9_Witness ==
    /\ Len(results) = 2
    /\ results[1].trades # results[2].trades
    /\ Len(results[1].profits) = 2
    /\ results[1].profits # results[2].profits

====
